---- MODULE Spec2Model ----
(***************************************************************************)
(* FreeRTOSpp.h: C++ wrappers (Task<T>, CTask, TaskBase, Semaphore, Mutex)  *)
(* around the FreeRTOS kernel's task and semaphore calls.                   *)
(*                                                                          *)
(* The wrappers' fields and the statements of their methods are the model.  *)
(* The kernel they forward to is the environment: each kernel call is an    *)
(* operator that yields the set of outcomes the FreeRTOS API allows (a      *)
(* creation may fail; a call on a null or dangling handle is undefined      *)
(* behaviour: the kernel goes on or panics).                                *)
(*                                                                          *)
(* The wrapper classes share no state, so the model follows one wrapper     *)
(* object at a time, of any of the five classes (cls).  An application      *)
(* thread calls the methods of a task wrapper one after another; the task   *)
(* it created runs concurrently with it.  The methods of a semaphore are    *)
(* called from any number of tasks and interrupt handlers.                  *)
(***************************************************************************)
EXTENDS Integers, FiniteSets

\* ---------------------------------------------------------------- bounds
\* Number of task control block addresses the kernel can hand out.
MaxHandles == 2
\* Number of distinct object pointers and member-function pointers passed.
MaxArgs == 2
\* Number of callers that can be blocked in take() at a time.
MaxWaiters == 2

\* ------------------------------------------------------ program constants
NULL == 0
pdPASS == 1
pdTRUE == 1
errQUEUE_FULL == 0
errQUEUE_EMPTY == 0
errCOULD_NOT_ALLOCATE_REQUIRED_MEMORY == -1
\* take()'s default xBlockTime: the largest tick count (0xffffffff with 32-bit
\* ticks, 0xffff with 16-bit ticks); here only its being nonzero matters.
portMAX_DELAY == 65535

Handles == 1..MaxHandles
Objs == 1..MaxArgs
Funcs == 1..MaxArgs
BlockTimes == {0, portMAX_DELAY}

TaskClasses == {"Task", "CTask", "TaskBase"}
\* The classes whose start() takes the task's code from the caller.
StartClasses == {"Task", "CTask"}
SemClasses == {"Semaphore", "Mutex"}
Classes == TaskClasses \cup SemClasses

VARIABLES
  cls,            \* the class of the wrapper object
  alive,          \* the object is constructed and not yet destroyed
  pxCreatedTask,  \* the task wrapper's field pxCreatedTask
  obj,            \* Task<T>::obj
  func,           \* Task<T>::func
  pc,             \* position of the application thread inside a method
  call,           \* the method call the application thread is executing
  tasks,          \* kernel: [Handles -> task control block or NoTask]
  held,           \* the last start/createTask returned true and terminate/
                  \* deleteTask was not invoked since
  xSemaphore,     \* the semaphore wrapper's field xSemaphore
  count,          \* kernel: the semaphore's count, 0 (empty) or 1
  waiters,        \* kernel: number of callers blocked in xSemaphoreTake
  balance,        \* gives that returned true minus takes that returned true
  kcall,          \* the kernel call made by the step just taken, if any
  lastRet,        \* the method return made by the step just taken, if any
  crashed         \* the kernel panicked (an outcome of undefined behaviour)

taskVars == <<pxCreatedTask, obj, func, pc, call, tasks, held>>
semVars == <<xSemaphore, count, waiters, balance>>
vars == <<cls, alive, taskVars, semVars, kcall, lastRet, crashed>>

\* ------------------------------------------------------- observations
\* A kernel call: the function, whether its handle argument is null, whether
\* the handle refers to a live object created through the wrapper, and the
\* xBlockTime argument (of xSemaphoreTake).
KCall(fn, isNull, valid, bt) ==
  [fn |-> fn, null |-> isNull, valid |-> valid, bt |-> bt]

NoKCall == KCall("none", FALSE, TRUE, 0)

\* A return: the method, the value returned, whether the method forwarded
\* to the kernel call it wraps and that call's result, whether the wrapper
\* held a live task when the method was called, and take()'s xBlockTime.
Ret(op, val, fwd, kres, had, bt) ==
  [op |-> op, val |-> val, fwd |-> fwd, kres |-> kres, had |-> had,
   bt |-> bt]

NoRet == Ret("none", FALSE, FALSE, 0, FALSE, 0)

NoCall == [op |-> "none", obj |-> NULL, func |-> NULL, had |-> FALSE]

\* ------------------------------------------------------- the kernel: tasks
NoTask == [code |-> "none", st |-> "none",
           pobj |-> NULL, pfunc |-> NULL, robj |-> NULL, rfunc |-> NULL]

Live(h) == h # NULL /\ tasks[h].st # "none"

\* The live kernel tasks (all were created through the wrapper).
LiveTasks == {h \in Handles : Live(h)}

\* xTaskCreatePinnedToCore(code, ..., &pxCreatedTask, ...): the outcomes.
\* On pdPASS a task control block is allocated at a free address, the task is
\* made ready and the address is stored through the handle pointer; on
\* failure nothing is allocated and the handle pointer is not written.
\* pobj, pfunc: the arguments of the start call, kept with the task.
xTaskCreatePinnedToCore(code, pobj, pfunc) ==
  { [res |-> pdPASS,
     handle |-> h,
     tasks |-> [tasks EXCEPT ![h] =
                  [code |-> code, st |-> "ready",
                   pobj |-> pobj, pfunc |-> pfunc,
                   robj |-> NULL, rfunc |-> NULL]]] :
      h \in {a \in Handles : ~Live(a)} }
  \cup
  { [res |-> errCOULD_NOT_ALLOCATE_REQUIRED_MEMORY,
     handle |-> pxCreatedTask,
     tasks |-> tasks] }

\* vTaskDelete(h) called by a task other than h: the outcomes.  A live task
\* is removed.  A handle whose task is gone is dangling: the behaviour is
\* undefined, the kernel goes on or panics.
vTaskDelete(h) ==
  IF Live(h)
  THEN { [tasks |-> [tasks EXCEPT ![h] = NoTask], crashed |-> FALSE] }
  ELSE { [tasks |-> tasks, crashed |-> FALSE],
         [tasks |-> tasks, crashed |-> TRUE] }

\* -------------------------------------------------- the kernel: semaphores
\* xSemaphoreCreateBinary() / xSemaphoreCreateMutex(): a handle, or NULL when
\* the heap is exhausted.  A binary semaphore is created empty, a mutex free.
xSemaphoreCreate(c) ==
  { [handle |-> 1, count |-> IF c = "Mutex" THEN 1 ELSE 0],
    [handle |-> NULL, count |-> 0] }

\* xSemaphoreGive(h), xSemaphoreGiveFromISR(h, NULL): the outcomes.  The
\* count of a binary semaphore or mutex goes from 0 to 1, or the call fails.
\* A null handle fails the kernel's assertion (or is dereferenced): a panic.
xSemaphoreGive(h) ==
  IF h = NULL THEN { [how |-> "panic", res |-> 0, count |-> count] }
  ELSE IF count = 0 THEN { [how |-> "return", res |-> pdTRUE, count |-> 1] }
  ELSE { [how |-> "return", res |-> errQUEUE_FULL, count |-> count] }

\* xSemaphoreTake(h, xBlockTime): the outcomes; "blocked": the caller waits.
xSemaphoreTake(h, xBlockTime) ==
  IF h = NULL THEN { [how |-> "panic", res |-> 0, count |-> count] }
  ELSE IF count = 1 THEN { [how |-> "return", res |-> pdTRUE, count |-> 0] }
  ELSE IF xBlockTime = 0
  THEN { [how |-> "return", res |-> errQUEUE_EMPTY, count |-> count] }
  ELSE { [how |-> "blocked", res |-> 0, count |-> count] }

\* vSemaphoreDelete(h): the outcomes; a null handle is undefined behaviour.
vSemaphoreDelete(h) ==
  IF h = NULL THEN { [crashed |-> FALSE], [crashed |-> TRUE] }
  ELSE { [crashed |-> FALSE] }

\* ------------------------------------------------- the wrappers' decisions
\* Task::start, CTask::start: `if (pxCreatedTask != NULL) terminate();`
\* (faulty variant: start never deletes the task it holds)
StartNeedsTerminate_Never == FALSE
StartNeedsTerminate == pxCreatedTask # NULL

\* Task::start, CTask::start: `return result == pdPASS;`
\* (faulty variant: start reports success whatever the kernel returned)
StartResult_AlwaysTrue(result) == TRUE
StartResult(result) == result = pdPASS

\* TaskBase::createTask: `if (pxCreatedTask != NULL) { ...; return false; }`
\* (faulty variant: createTask without the already-created check)
CreateTaskRejects_Never == FALSE
CreateTaskRejects == pxCreatedTask # NULL

\* ... the value that branch returns.
\* (faulty variant: the already-created branch reports success)
CreateTaskRejectedValue_True == TRUE
CreateTaskRejectedValue == FALSE

\* TaskBase::createTask: `if (res != pdPASS) {...; return false;} return true;`
CreateTaskResult(res) == res = pdPASS

\* terminate / deleteTask: `if (pxCreatedTask == NULL) return;`
TerminateReturnsEarly == pxCreatedTask = NULL

\* Semaphore, Mutex: `return pdTRUE == xSemaphoreGive(xSemaphore);` (and ISR)
GiveResult(res) == pdTRUE = res

\* Semaphore, Mutex: `return pdTRUE == xSemaphoreTake(xSemaphore, xBlockTime);`
\* (faulty variant: take reports success whatever the kernel returned)
TakeResult_AlwaysTrue(res) == TRUE
TakeResult(res) == pdTRUE = res

\* The code the kernel is given to run as the task.
TaskCode(op) == IF op = "start" THEN "entry_point"
                ELSE IF op = "createTask" THEN "pxTaskCode"
                ELSE "pvTaskCode"

\* ---------------------------------------------------------------- Init
\* The state after a constructor: of a task wrapper (lines 15, 81, 124), or
\* of a semaphore wrapper (lines 178-183, 199-204) given the kernel's outcome.
Constructed(c) ==
  /\ cls = c
  /\ alive = TRUE
  /\ pxCreatedTask = NULL
  /\ obj = NULL
  /\ func = NULL
  /\ held = FALSE
  /\ balance = 0
  /\ waiters = 0
  /\ IF c \in SemClasses
     THEN \E out \in xSemaphoreCreate(c) :
            xSemaphore = out.handle /\ count = out.count
     ELSE xSemaphore = NULL /\ count = 0

Init ==
  /\ \E c \in Classes : Constructed(c)
  /\ pc = "idle"
  /\ call = NoCall
  /\ tasks = [h \in Handles |-> NoTask]
  /\ kcall = NoKCall
  /\ lastRet = NoRet
  /\ crashed = FALSE

\* ------------------------------------------- the application thread calls
Begin(op, o, f, label) ==
  /\ ~crashed /\ pc = "idle" /\ alive
  /\ pc' = label
  /\ call' = [op |-> op, obj |-> o, func |-> f,
              had |-> Live(pxCreatedTask)]
  /\ kcall' = NoKCall
  /\ lastRet' = NoRet
  /\ UNCHANGED <<cls, alive, pxCreatedTask, obj, func, tasks, held, semVars,
                 crashed>>

\* Task<T>::start(obj, func, ...) is called.
CallStart(o, f) ==
  /\ cls = "Task"
  /\ Begin("start", o, f, "start_obj")

\* Task<T>::start(pvTaskCode, ...) or CTask::start(pvTaskCode, ...) is called.
CallStartCode ==
  /\ cls \in StartClasses
  /\ Begin("startCode", NULL, NULL, "start_check")

\* TaskBase::createTask(...) is called.
CallCreateTask ==
  /\ cls = "TaskBase"
  /\ Begin("createTask", NULL, NULL, "createTask")

\* terminate() (Task<T>, CTask) or deleteTask() (TaskBase) is called.
CallTerminate ==
  /\ cls \in TaskClasses
  /\ Begin("terminate", NULL, NULL, "terminate")

\* The task wrapper goes out of scope: its destructor is called.
CallDestroy ==
  /\ cls \in TaskClasses
  /\ Begin("destroy", NULL, NULL, "destroy")

\* Line 28: this->obj = obj;
StartWriteObj ==
  /\ ~crashed /\ pc = "start_obj"
  /\ obj' = call.obj
  /\ pc' = "start_func"
  /\ kcall' = NoKCall
  /\ lastRet' = NoRet
  /\ UNCHANGED <<cls, alive, pxCreatedTask, func, call, tasks, held, semVars,
                 crashed>>

\* Line 29: this->func = func;
StartWriteFunc ==
  /\ ~crashed /\ pc = "start_func"
  /\ func' = call.func
  /\ pc' = "start_check"
  /\ kcall' = NoKCall
  /\ lastRet' = NoRet
  /\ UNCHANGED <<cls, alive, pxCreatedTask, obj, call, tasks, held, semVars,
                 crashed>>

\* The statements of terminate() / deleteTask() after the null check, run by
\* the application thread, given the kernel's outcome out (lines 58-59,
\* 107-108, 157-158).  After a panic nothing more is executed.
TerminateBody(out) ==
  /\ kcall' = KCall("vTaskDelete", pxCreatedTask = NULL, Live(pxCreatedTask),
                    0)
  /\ tasks' = out.tasks
  /\ crashed' = out.crashed
  /\ pxCreatedTask' = IF out.crashed THEN pxCreatedTask ELSE NULL

\* Lines 30-31, 45-46, 94-95: if (pxCreatedTask != NULL) terminate();
StartCheck ==
  /\ ~crashed /\ pc = "start_check"
  /\ IF StartNeedsTerminate /\ ~TerminateReturnsEarly
     THEN \E out \in vTaskDelete(pxCreatedTask) :
            /\ TerminateBody(out)
            /\ held' = FALSE
            /\ pc' = IF out.crashed THEN pc ELSE "start_create"
     ELSE /\ pc' = "start_create"
          /\ kcall' = NoKCall
          /\ held' = IF StartNeedsTerminate THEN FALSE ELSE held
          /\ UNCHANGED <<pxCreatedTask, tasks, crashed>>
  /\ lastRet' = NoRet
  /\ UNCHANGED <<cls, alive, obj, func, call, semVars>>

\* Lines 32-35, 47-50, 96-99: the kernel call and the return.
StartCreate ==
  /\ ~crashed /\ pc = "start_create"
  /\ \E out \in xTaskCreatePinnedToCore(TaskCode(call.op), call.obj,
                                        call.func) :
       /\ tasks' = out.tasks
       /\ pxCreatedTask' = out.handle
       /\ lastRet' = Ret(call.op, StartResult(out.res), TRUE, out.res,
                      call.had, 0)
       /\ held' = StartResult(out.res)
  /\ kcall' = KCall("xTaskCreatePinnedToCore", FALSE, TRUE, 0)
  /\ pc' = "idle"
  /\ call' = NoCall
  /\ UNCHANGED <<cls, alive, obj, func, semVars, crashed>>

\* Lines 135-147: TaskBase::createTask.
CreateTask ==
  /\ ~crashed /\ pc = "createTask"
  /\ IF CreateTaskRejects
     THEN /\ lastRet' = Ret("createTask", CreateTaskRejectedValue, FALSE, 0,
                            call.had, 0)
          /\ kcall' = NoKCall
          /\ UNCHANGED <<pxCreatedTask, tasks, held>>
     ELSE \E out \in xTaskCreatePinnedToCore(TaskCode(call.op), NULL, NULL) :
            /\ tasks' = out.tasks
            /\ pxCreatedTask' = out.handle
            /\ kcall' = KCall("xTaskCreatePinnedToCore", FALSE, TRUE, 0)
            /\ lastRet' = Ret("createTask", CreateTaskResult(out.res),
                              TRUE, out.res, call.had, 0)
            /\ held' = CreateTaskResult(out.res)
  /\ pc' = "idle"
  /\ call' = NoCall
  /\ UNCHANGED <<cls, alive, obj, func, semVars, crashed>>

\* Lines 55-60, 104-109, 152-159: terminate() / deleteTask(); and the
\* destructors (lines 16, 82, 128), which call them and end the object.
Terminate ==
  /\ ~crashed /\ pc \in {"terminate", "destroy"}
  /\ held' = FALSE
  /\ IF TerminateReturnsEarly
     THEN /\ kcall' = NoKCall
          /\ UNCHANGED <<pxCreatedTask, tasks, crashed>>
          /\ lastRet' = Ret(call.op, TRUE, FALSE, 0, call.had, 0)
          /\ alive' = (pc # "destroy")
          /\ pc' = "idle"
          /\ call' = NoCall
     ELSE \E out \in vTaskDelete(pxCreatedTask) :
            /\ TerminateBody(out)
            /\ IF out.crashed
               THEN /\ lastRet' = NoRet
                    /\ UNCHANGED <<alive, pc, call>>
               ELSE /\ lastRet' = Ret(call.op, TRUE, FALSE, 0, call.had, 0)
                    /\ alive' = (pc # "destroy")
                    /\ pc' = "idle"
                    /\ call' = NoCall
  /\ UNCHANGED <<cls, obj, func, semVars>>

\* A new wrapper object, of any class, is constructed after the previous one
\* was destroyed (lines 15, 81, 124, 178-183, 199-204).
Construct(c) ==
  /\ ~crashed /\ pc = "idle" /\ ~alive
  /\ cls' = c
  /\ alive' = TRUE
  /\ pxCreatedTask' = NULL
  /\ obj' = NULL
  /\ func' = NULL
  /\ held' = FALSE
  /\ balance' = 0
  /\ waiters' = 0
  /\ IF c \in SemClasses
     THEN \E out \in xSemaphoreCreate(c) :
            xSemaphore' = out.handle /\ count' = out.count
     ELSE xSemaphore' = NULL /\ count' = 0
  /\ kcall' = IF c \in SemClasses
              THEN KCall("xSemaphoreCreate", FALSE, TRUE, 0) ELSE NoKCall
  /\ lastRet' = NoRet
  /\ UNCHANGED <<pc, call, tasks, crashed>>

\* ------------------------------------------------------ the created task
\* Lines 70-73, entry_point: the task reads task_obj->obj ...
EntryReadObj(h) ==
  /\ ~crashed /\ Live(h) /\ tasks[h].code = "entry_point"
  /\ tasks[h].st \in {"ready", "readFunc"}
  /\ tasks' = [tasks EXCEPT ![h].robj = obj,
                 ![h].st = IF @ = "ready" THEN "readObj" ELSE "running"]
  /\ kcall' = NoKCall
  /\ lastRet' = NoRet
  /\ UNCHANGED <<cls, alive, pxCreatedTask, obj, func, pc, call, held,
                 semVars, crashed>>

\* ... and task_obj->func, in either order, and calls the one on the other.
EntryReadFunc(h) ==
  /\ ~crashed /\ Live(h) /\ tasks[h].code = "entry_point"
  /\ tasks[h].st \in {"ready", "readObj"}
  /\ tasks' = [tasks EXCEPT ![h].rfunc = func,
                 ![h].st = IF @ = "ready" THEN "readFunc" ELSE "running"]
  /\ kcall' = NoKCall
  /\ lastRet' = NoRet
  /\ UNCHANGED <<cls, alive, pxCreatedTask, obj, func, pc, call, held,
                 semVars, crashed>>

\* Lines 171-173 (pxTaskCode calls task()), or the caller's pvTaskCode runs.
RunTask(h) ==
  /\ ~crashed /\ Live(h) /\ tasks[h].code # "entry_point"
  /\ tasks[h].st = "ready"
  /\ tasks' = [tasks EXCEPT ![h].st = "running"]
  /\ kcall' = NoKCall
  /\ lastRet' = NoRet
  /\ UNCHANGED <<cls, alive, pxCreatedTask, obj, func, pc, call, held,
                 semVars, crashed>>

\* Lines 55-60, 104-109, 152-159 run by the wrapped task itself: the code
\* running in task h calls terminate() / deleteTask() of its own wrapper.
\* vTaskDelete of the calling task does not return, so the statement after
\* it, pxCreatedTask = NULL, is not executed.
SelfTerminate(h) ==
  /\ ~crashed /\ Live(h) /\ tasks[h].st = "running" /\ alive
  /\ held' = FALSE
  /\ IF TerminateReturnsEarly
     THEN /\ kcall' = NoKCall
          /\ UNCHANGED <<pxCreatedTask, tasks, crashed>>
     ELSE IF pxCreatedTask = h
     THEN /\ kcall' = KCall("vTaskDelete", FALSE, TRUE, 0)
          /\ tasks' = [tasks EXCEPT ![h] = NoTask]
          /\ UNCHANGED <<pxCreatedTask, crashed>>
     ELSE \E out \in vTaskDelete(pxCreatedTask) : TerminateBody(out)
  /\ lastRet' = NoRet
  /\ UNCHANGED <<cls, alive, obj, func, pc, call, semVars>>

\* --------------------------------------------------------- the semaphores
\* Lines 185-188, 206-209: give() and giveFromISR(), from any context.
Give(op) ==
  /\ ~crashed /\ alive /\ cls \in SemClasses
  /\ \E out \in xSemaphoreGive(xSemaphore) :
       /\ kcall' = KCall(IF op = "give" THEN "xSemaphoreGive"
                         ELSE "xSemaphoreGiveFromISR",
                         xSemaphore = NULL, xSemaphore # NULL, 0)
       /\ IF out.how = "panic"
          THEN /\ crashed' = TRUE
               /\ lastRet' = NoRet
               /\ UNCHANGED <<count, balance>>
          ELSE /\ count' = out.count
               /\ lastRet' = Ret(op, GiveResult(out.res), TRUE, out.res, FALSE,
                                0)
               /\ balance' = IF GiveResult(out.res) THEN balance + 1
                             ELSE balance
               /\ UNCHANGED crashed
  /\ UNCHANGED <<cls, alive, taskVars, xSemaphore, waiters>>

\* Lines 189-191, 210-212: take(xBlockTime), from any task.
Take(xBlockTime) ==
  /\ ~crashed /\ alive /\ cls \in SemClasses
  /\ \E out \in xSemaphoreTake(xSemaphore, xBlockTime) :
       /\ out.how = "blocked" => waiters < MaxWaiters
       /\ kcall' = KCall("xSemaphoreTake", xSemaphore = NULL,
                         xSemaphore # NULL, xBlockTime)
       /\ IF out.how = "panic"
          THEN /\ crashed' = TRUE
               /\ lastRet' = NoRet
               /\ UNCHANGED <<count, balance, waiters>>
          ELSE IF out.how = "blocked"
          THEN /\ waiters' = waiters + 1
               /\ lastRet' = NoRet
               /\ UNCHANGED <<count, balance, crashed>>
          ELSE /\ count' = out.count
               /\ lastRet' = Ret("take", TakeResult(out.res), TRUE, out.res,
                                 FALSE, xBlockTime)
               /\ balance' = IF TakeResult(out.res) THEN balance - 1
                             ELSE balance
               /\ UNCHANGED <<waiters, crashed>>
  /\ UNCHANGED <<cls, alive, taskVars, xSemaphore>>

\* A caller blocked in xSemaphoreTake is woken by a give, takes the
\* semaphore, and take() returns (lines 190, 211).
TakeWake ==
  /\ ~crashed /\ waiters > 0 /\ count = 1
  /\ count' = 0
  /\ waiters' = waiters - 1
  /\ kcall' = NoKCall
  /\ lastRet' = Ret("take", TakeResult(pdTRUE), TRUE, pdTRUE, FALSE,
                    portMAX_DELAY)
  /\ balance' = IF TakeResult(pdTRUE) THEN balance - 1 ELSE balance
  /\ UNCHANGED <<cls, alive, taskVars, xSemaphore, crashed>>

\* A caller blocked in xSemaphoreTake times out on the empty semaphore
\* (portMAX_DELAY is a finite time unless INCLUDE_vTaskSuspend is set).
TakeTimeout ==
  /\ ~crashed /\ waiters > 0 /\ count = 0
  /\ waiters' = waiters - 1
  /\ kcall' = NoKCall
  /\ lastRet' = Ret("take", TakeResult(errQUEUE_EMPTY), TRUE, errQUEUE_EMPTY,
                    FALSE, portMAX_DELAY)
  /\ balance' = IF TakeResult(errQUEUE_EMPTY) THEN balance - 1 ELSE balance
  /\ UNCHANGED <<cls, alive, taskVars, xSemaphore, count, crashed>>

\* Lines 184, 205: ~Semaphore(), ~Mutex(); no caller is blocked on it.
SemDestroy ==
  /\ ~crashed /\ alive /\ cls \in SemClasses /\ waiters = 0
  /\ \E out \in vSemaphoreDelete(xSemaphore) :
       /\ crashed' = out.crashed
       /\ alive' = out.crashed
  /\ kcall' = KCall("vSemaphoreDelete", xSemaphore = NULL, xSemaphore # NULL,
                    0)
  /\ lastRet' = NoRet
  /\ UNCHANGED <<cls, taskVars, semVars>>

\* ------------------------------------------------------------------ Next
Next ==
  \/ \E o \in Objs, f \in Funcs : CallStart(o, f)
  \/ CallStartCode
  \/ CallCreateTask
  \/ CallTerminate
  \/ CallDestroy
  \/ StartWriteObj
  \/ StartWriteFunc
  \/ StartCheck
  \/ StartCreate
  \/ CreateTask
  \/ Terminate
  \/ \E c \in Classes : Construct(c)
  \/ \E h \in Handles : EntryReadObj(h)
  \/ \E h \in Handles : EntryReadFunc(h)
  \/ \E h \in Handles : RunTask(h)
  \/ \E h \in Handles : SelfTerminate(h)
  \/ \E op \in {"give", "giveFromISR"} : Give(op)
  \/ \E bt \in BlockTimes : Take(bt)
  \/ TakeWake
  \/ TakeTimeout
  \/ SemDestroy

Spec == Init /\ [][Next]_vars

\* ================================================================ claims
StartOps == {"start", "startCode"}

\* C1: at every moment at most one kernel task created through the wrapper is
\* live, and whenever one is live the wrapper's pxCreatedTask refers to it.
Thm_C1 ==
  /\ Cardinality(LiveTasks) <= 1
  /\ \A h \in LiveTasks : pxCreatedTask = h

\* C1 happens: a start made while a task was held has returned true, and the
\* task it created is the live one.
Witness_C1 ==
  /\ lastRet.op \in StartOps /\ lastRet.had /\ lastRet.val
  /\ Cardinality(LiveTasks) = 1

\* C2 as stated: every vTaskDelete a wrapper issues has a handle that is not
\* null and whose task is live (not yet deleted), whichever task calls
\* terminate() / deleteTask() / the destructor.
CE_C2 == kcall.fn = "vTaskDelete" => ~kcall.null /\ kcall.valid

HandleCalls == {"vTaskDelete", "xSemaphoreGive", "xSemaphoreGiveFromISR",
                "xSemaphoreTake", "vSemaphoreDelete"}

\* C3 as stated: no kernel call that takes a handle is issued with a null
\* handle, by any operation of any wrapper class.
CE_C3 == kcall.fn \in HandleCalls => ~kcall.null

\* C4: the boolean a create, give, giveFromISR or take returns mirrors the
\* kernel's result: start returns true iff its xTaskCreatePinnedToCore call
\* returned pdPASS; createTask returns true iff it made that call and it
\* returned pdPASS; give, giveFromISR and take return true iff the forwarded
\* call returned pdTRUE.
Thm_C4 ==
  /\ lastRet.op \in StartOps =>
       lastRet.fwd /\ (lastRet.val <=> lastRet.kres = pdPASS)
  /\ lastRet.op = "createTask" =>
       (lastRet.val <=> (lastRet.fwd /\ lastRet.kres = pdPASS))
  /\ lastRet.op \in {"give", "giveFromISR", "take"} =>
       lastRet.fwd /\ (lastRet.val <=> lastRet.kres = pdTRUE)

\* C4 happens: a start whose kernel call failed has returned false.
Witness_C4 ==
  /\ lastRet.op \in StartOps /\ ~lastRet.val
  /\ lastRet.kres = errCOULD_NOT_ALLOCATE_REQUIRED_MEMORY

\* C5 as stated: for Task<T>, CTask and TaskBase alike, a start/createTask
\* called while the wrapper holds the task of an earlier successful call
\* returns false.
CE_C5 ==
  lastRet.op \in StartOps \cup {"createTask"} /\ lastRet.had => ~lastRet.val

\* C5 amended: TaskBase::createTask called while the wrapper holds the task of
\* an earlier successful call returns false and makes no kernel call;
\* Task<T>::start and CTask::start called in that situation make the kernel
\* create call and return true iff it returned pdPASS.
Thm_C5 ==
  /\ lastRet.op = "createTask" /\ lastRet.had => ~lastRet.val /\ ~lastRet.fwd
  /\ lastRet.op \in StartOps /\ lastRet.had =>
       lastRet.fwd /\ (lastRet.val <=> lastRet.kres = pdPASS)

\* C5 happens: createTask called on a TaskBase holding a task returned false.
Witness_C5 ==
  cls = "TaskBase" /\ lastRet.op = "createTask" /\ lastRet.had /\ ~lastRet.val

\* A destructor of a task wrapper returns in this step.
DestructorReturns == pc = "destroy" /\ pc' = "idle"

\* C6 as stated: when a task wrapper's destructor returns, no kernel task
\* created through it is live; and the destructor of a wrapper that held no
\* live task when it was called issues no vTaskDelete.
CE_C6 ==
  [][DestructorReturns =>
       /\ LiveTasks' = {}
       /\ (~call.had => kcall'.fn # "vTaskDelete")]_vars

\* A take(0) is issued in this step on a Semaphore that was created and for
\* which no give has returned true since the last take that returned true.
ZeroTakeOnEmpty ==
  /\ cls = "Semaphore" /\ alive /\ xSemaphore # NULL /\ balance = 0
  /\ kcall'.fn = "xSemaphoreTake" /\ kcall'.bt = 0

\* C7: Semaphore::take(0) on an empty binary semaphore returns false at once
\* (the caller is not blocked) and leaves the semaphore as it was; and the
\* takes that returned true never outnumber the gives that returned true.
Thm_C7 ==
  [][/\ cls' = "Semaphore" => balance' >= 0
     /\ ZeroTakeOnEmpty =>
          /\ lastRet'.op = "take" /\ ~lastRet'.val
          /\ UNCHANGED <<count, waiters, balance, xSemaphore>>]_vars

\* C7 happens: take(0) on a created, empty Semaphore, with as many takes as
\* gives having returned true, has returned false.
Witness_C7 ==
  /\ cls = "Semaphore" /\ xSemaphore # NULL
  /\ lastRet.op = "take" /\ lastRet.bt = 0 /\ ~lastRet.val
  /\ balance = 0 /\ count = 0 /\ waiters = 0

\* C8 as stated: a task created by Task<T>::start(obj, func, ...) invokes,
\* through entry_point, the func and the obj passed to the start call that
\* created it.
CE_C8 ==
  \A h \in Handles :
    tasks[h].code = "entry_point" /\ tasks[h].st = "running" =>
      tasks[h].robj = tasks[h].pobj /\ tasks[h].rfunc = tasks[h].pfunc

\* TaskBase::createTask returns in this step, having found a task created.
CreateTaskRejected ==
  pc = "createTask" /\ pc' = "idle" /\ pxCreatedTask # NULL

\* TaskBase::deleteTask returns in this step, the wrapper holding a live task.
DeleteTaskOfLive ==
  cls = "TaskBase" /\ pc = "terminate" /\ pc' = "idle" /\ Live(pxCreatedTask)

\* C9: a createTask rejected because a task is already created makes no
\* kernel call, leaves pxCreatedTask and the kernel's tasks as they were and
\* returns false; a deleteTask on a wrapper holding a live task deletes it.
Thm_C9 ==
  [][/\ CreateTaskRejected =>
          /\ kcall'.fn = "none"
          /\ ~lastRet'.val
          /\ UNCHANGED <<pxCreatedTask, tasks, alive, obj, func>>
     /\ DeleteTaskOfLive =>
          /\ tasks'[pxCreatedTask] = NoTask
          /\ pxCreatedTask' = NULL]_vars

\* C9 happens: createTask was rejected and the original task is still live
\* and still the one pxCreatedTask refers to.
Witness_C9 ==
  /\ lastRet.op = "createTask" /\ ~lastRet.fwd /\ pc = "idle"
  /\ Live(pxCreatedTask) /\ tasks[pxCreatedTask].code = "pxTaskCode"

\* C10 as stated: between calls, a Task<T> / CTask wrapper's handle is
\* non-null exactly when its most recent start returned true and terminate
\* was not invoked since.
CE_C10 ==
  pc = "idle" /\ alive /\ cls \in StartClasses =>
    (pxCreatedTask # NULL <=> held)

\* The part of C10 about start itself: when start makes the kernel create
\* call the old task is already deleted and the handle null, and if the call
\* fails start returns false with the handle null and no task live.
StartDeletesFirst ==
  [][pc = "start_create" /\ pc' = "idle" =>
       /\ LiveTasks = {} /\ pxCreatedTask = NULL
       /\ (lastRet'.kres # pdPASS =>
             ~lastRet'.val /\ pxCreatedTask' = NULL /\ LiveTasks' = {})]_vars

====
